---- MODULE Spec2Model ----
(***************************************************************************)
(* Storage-entry lifecycle and unique-code issuance of the Sanrakshan      *)
(* campus storage application (Django).                                    *)
(*                                                                         *)
(* The persisted state is the content of the tables of StorageEntry,       *)
(* StoredItem, QRCodeImage ("Unique Code") and QRScan.  Every request is a *)
(* process that holds in-memory copies of rows and issues its database     *)
(* statements one at a time.  Outside KeepStuffView.form_valid no code     *)
(* opens a transaction (settings.py sets no ATOMIC_REQUESTS), so every     *)
(* statement of the other requests commits on its own and other requests   *)
(* interleave between two statements.                                      *)
(*                                                                         *)
(* Names left over from the rename qr_codes -> unique_codes that are       *)
(* resolved at import time (UniqueCode, UniqueCodeScan) are taken to       *)
(* resolve to QRCodeImage and QRScan, and the signal receivers of          *)
(* storage/signals.py are taken to be connected.  The URL name used by     *)
(* the redirect of KeepStuffView.form_valid is resolved at run time        *)
(* against the namespaces the deployment's URLconf registers.  The root    *)
(* URLconf of the repository registers three; the namespace the redirect   *)
(* names is declared by qr_codes/urls.py, which the root URLconf does not  *)
(* include.  Both a deployment with the repository's root URLconf and one  *)
(* that also includes qr_codes/urls.py are modelled: see namespaces.       *)
(***************************************************************************)
EXTENDS Integers, Sequences, FiniteSets, TLC

\* ---------------------------------------------------------------- bounds
MaxEntries == 2      \* storage entries that can be persisted
NumCodes   == 2      \* size of the code space the generator draws from
MaxForms   == 2      \* item forms in one creation request
MaxTime    == 2      \* readings of timezone.now() that stamp a claim
MaxNotes   == 2      \* lines appended to staff_notes
MaxRequests == 3     \* requests served in one behaviour
MaxRun     == 1      \* positions in a row whose character differs from the rest of a draw
MaxQuantity == 3     \* quantity of an item of the entries get_total_items is called on

\* ------------------------------------------------------------- constants
None      == 0       \* NULL of claimed_at
EmptyCode == 0       \* the blank default '' of QRCodeImage.code

EntryIds  == 1..MaxEntries
CodeSpace == 1..NumCodes
Times     == 1..MaxTime
Reqs      == {"r1", "r2"}

STATUS_CHOICES == {"active", "claimed", "expired", "cancelled"}

\* namespaces registered by the root URLconf, and the one declared by the
\* qr_codes app that the root URLconf does not include
RootNamespaces    == {"accounts", "storage", "unique_codes"}
QrCodesNamespace  == "qr_codes"

\* a row that does not exist
NoEntry == [status |-> "none", claimed_at |-> None, staff_notes |-> <<>>]
\* a row that was deleted: its primary key is not given out again
Deleted == [status |-> "deleted", claimed_at |-> None, staff_notes |-> <<>>]
NoQr    == [present |-> FALSE, code |-> EmptyCode, is_active |-> FALSE]

VARIABLES
    namespaces,   \* URL namespaces the deployment registers (fixed at start)
    entry,        \* StorageEntry rows: status, claimed_at, staff_notes
    items,        \* StoredItem rows of each entry: the quantities
    qr,           \* QRCodeImage row of each entry: code, is_active
    scans,        \* QRScan rows in insertion order
    now,          \* next reading of timezone.now()
    served,       \* number of requests started so far
    pc,           \* position of each request
    req,          \* in-memory objects of each request
    code,         \* generate_unique_code: the characters random.choices drew
    formatted_code \* generate_unique_code: the string it returned

vars == <<namespaces, entry, items, qr, scans, now, served, pc, req,
          code, formatted_code>>
db   == <<entry, items, qr, scans>>

\* request.user: no principal, and the logged-in principals (a student, a
\* staff member)
NoUser == [is_authenticated |-> FALSE, is_staff |-> FALSE]
Users  == {[is_authenticated |-> TRUE, is_staff |-> b] : b \in BOOLEAN}

NoReq == [kind |-> "none", e |-> 0, inst |-> NoEntry, qrc |-> NoQr,
          cand |-> EmptyCode, result |-> "none",
          submitted |-> 0, valid |-> 0, created |-> 0, user |-> NoUser,
          total_items |-> 0]

\* ------------------------------------------------ StorageEntry (models.py)

\* Meta.constraints: claimed_at_required_when_claimed
claimed_at_required_when_claimed(row) ==
    \/ row.status \in {"active", "expired", "cancelled"}
    \/ (row.status = "claimed" /\ row.claimed_at # None)

\* StorageEntry.clean: TRUE when validation passes; old is the persisted row
clean(inst, old) ==
    ~(old.status = "claimed" /\ inst.status # "claimed")

\* StorageEntry.save, the part before super().save()
save_claimed_at(inst, t) ==
    IF inst.status = "claimed" /\ inst.claimed_at = None
    THEN [inst EXCEPT !.claimed_at = t]
    ELSE inst

\* faulty variant of update_storage_status: stamps on every status change
update_storage_status_AnyChange(inst, old, t) ==
    IF old.status # inst.status
    THEN [inst EXCEPT !.claimed_at = t]
    ELSE inst

\* pre_save receiver update_storage_status; old is the persisted row
update_storage_status(inst, old, t) ==
    IF old.status # inst.status /\ inst.status = "claimed"
    THEN [inst EXCEPT !.claimed_at = t]
    ELSE inst

\* the row an UPDATE issued by StorageEntry.save writes
saved_row(inst, old, t) ==
    update_storage_status(save_claimed_at(inst, t), old, t)

\* faulty variant of the guard of claim_items: no status check
claim_items_allowed_Always(inst) == TRUE

\* StorageEntry.claim_items: the guard and the in-memory assignments
claim_items_allowed(inst) == inst.status = "active"

claim_items(inst, t, claimed_by) ==
    [status      |-> "claimed",
     claimed_at  |-> t,
     staff_notes |-> IF claimed_by
                     THEN Append(inst.staff_notes, "Claimed by")
                     ELSE inst.staff_notes]

\* StorageEntry.cancel_storage: the guard and the in-memory assignments
cancel_storage_allowed(inst) == inst.status # "claimed"

cancel_storage(inst, reason) ==
    [inst EXCEPT !.status = "cancelled",
                 !.staff_notes = IF reason THEN Append(@, "Cancelled") ELSE @]

\* faulty variant of prevent_active_entry_deletion: never raises
prevent_active_entry_deletion_Never(inst) == FALSE

\* pre_delete receiver prevent_active_entry_deletion: TRUE when it raises
prevent_active_entry_deletion(inst) == inst.status = "active"

\* ------------------------------------------- QRCodeImage (unique_codes)

\* QRCodeImage.objects.filter(code=c).exists()
code_exists(c) == \E e \in EntryIds : qr[e].present /\ qr[e].code = c

\* faulty variant of the constraint: not enforced
unique_violation_Never(c, e) == FALSE

\* unique=True on QRCodeImage.code: TRUE when writing c into the row of
\* entry e violates the constraint
unique_violation(c, e) ==
    \E e2 \in EntryIds \ {e} : qr[e2].present /\ qr[e2].code = c

\* generate_unique_code: the candidates on which the while loop can return
generate_unique_code == {c \in CodeSpace : ~code_exists(c)}

\* ----------------------------------------------------------------- Init
Init ==
    /\ namespaces \in {RootNamespaces, RootNamespaces \cup {QrCodesNamespace}}
    /\ entry = [e \in EntryIds |-> NoEntry]
    /\ items = [e \in EntryIds |-> <<>>]
    /\ qr    = [e \in EntryIds |-> NoQr]
    /\ scans = <<>>
    /\ now   = 1
    /\ served = 0
    /\ pc    = [r \in Reqs |-> "idle"]
    /\ req   = [r \in Reqs |-> NoReq]
    /\ code  = <<>>
    /\ formatted_code = <<>>

Exists(e) == entry[e].status \notin {"none", "deleted"}

\* a request slot is free before its first request and after the response
\* of its last one
Free(r) == pc[r] \in {"idle", "done"}

\* a request arrives and takes a free slot; the slots are interchangeable,
\* so the second one is taken only while the first is busy
Starts(r) ==
    /\ Free(r)
    /\ served < MaxRequests
    /\ served' = served + 1
    /\ r = "r2" => ~Free("r1")

\* the slot the next arriving request takes
Starter == IF Free("r1") THEN "r1" ELSE "r2"

\* the handler has run to its response: only the outcome is kept
Finish(r, res) ==
    /\ pc'  = [pc EXCEPT ![r] = "done"]
    /\ req' = [req EXCEPT ![r] = [NoReq EXCEPT !.kind = req[r].kind,
                                               !.e = req[r].e,
                                               !.result = res]]

\* --------------------------------------- KeepStuffView.form_valid (POST)

\* raw value of form-i-quantity
RawQty == {"x", "0", "1"}

\* int(...) of the fallback path: is_int is FALSE where int() raises ValueError
is_int(s) == s # "x"

int(s) == CASE s = "0"  -> 0
            [] s = "1"  -> 1

\* the item forms of a POST: a blank extra form, a form marked DELETE, and
\* named forms with every raw quantity
Forms ==
    {[item_name |-> FALSE, DELETE |-> FALSE, quantity |-> "1"],
     [item_name |-> TRUE,  DELETE |-> TRUE,  quantity |-> "1"]}
    \cup {[item_name |-> TRUE, DELETE |-> FALSE, quantity |-> q] : q \in RawQty}

Posts == [forms : UNION {[1..k -> Forms] : k \in 0..MaxForms}]

\* "if item_name and not is_deleted"
form_submitted(f) == f.item_name /\ ~f.DELETE

\* StoredItemForm.clean_quantity
clean_quantity(f) == is_int(f.quantity) /\ int(f.quantity) >= 1

\* StoredItem.clean / full_clean on the quantity: TRUE when it passes
StoredItem_clean(q) == q > 0

\* item_formset.is_valid(): min_num=1 with validate_min, every submitted
\* form valid; other_valid stands for the checks on fields not modelled
is_valid(post) ==
    /\ \E i \in DOMAIN post.forms : form_submitted(post.forms[i])
    /\ \A i \in DOMAIN post.forms :
          form_submitted(post.forms[i]) => clean_quantity(post.forms[i])

\* first branch: item_formset.save(commit=False), one item per submitted
\* form of a valid formset, in form order
RECURSIVE formset_items(_)
formset_items(fs) ==
    IF fs = <<>> THEN <<>>
    ELSE LET f    == Head(fs)
             rest == formset_items(Tail(fs))
         IN  IF form_submitted(f) THEN <<int(f.quantity)>> \o rest ELSE rest

\* fallback branch: the quantities handed to StoredItem.objects.create, in
\* form order; a form whose int() raises ValueError is skipped ("continue")
RECURSIVE fallback_items(_)
fallback_items(fs) ==
    IF fs = <<>> THEN <<>>
    ELSE LET f    == Head(fs)
             rest == fallback_items(Tail(fs))
         IN  IF form_submitted(f) /\ is_int(f.quantity)
             THEN <<int(f.quantity)>> \o rest
             ELSE rest

NumSubmitted(fs) == Cardinality({i \in DOMAIN fs : form_submitted(fs[i])})
NumValid(fs) ==
    Cardinality({i \in DOMAIN fs : form_submitted(fs[i]) /\ clean_quantity(fs[i])})

\* faulty variant of the zero-item check: never taken
no_items_created_Skip(n) == FALSE

\* "if items_created == 0"
no_items_created(n) == n = 0

\* redirect('qr_codes:display', ...): TRUE when the name reverses
redirect_display == QrCodesNamespace \in namespaces

\* the other creation whose uncommitted row still holds the empty code
CreationInFlight(r) == \E r2 \in Reqs \ {r} : pc[r2] = "c_code"

FreeIds == {e \in EntryIds : entry[e].status = "none"}

\* transaction.atomic() is entered; storage_entry.save() inserts the entry,
\* the post_save receiver inserts its code row with code '' and
\* generate_unique_code returns a candidate.  The INSERT of '' waits while
\* another creation's uncommitted row holds ''.
CreateBegin(r) ==
    /\ Starts(r)
    /\ ~CreationInFlight(r)
    /\ FreeIds # {}
    /\ \E c \in generate_unique_code :
          LET e == CHOOSE x \in FreeIds : \A y \in FreeIds : x <= y
          IN  req' = [req EXCEPT ![r] =
                        [NoReq EXCEPT !.kind = "create", !.e = e, !.cand = c,
                                      !.inst = [NoEntry EXCEPT !.status = "active"]]]
    /\ pc' = [pc EXCEPT ![r] = "c_code"]
    /\ UNCHANGED <<namespaces, entry, items, qr, scans, now,
                   code, formatted_code>>

\* qr.save() writes the candidate, the items are saved, the zero-item check
\* and the redirect run; the block commits, or an exception rolls it back
\* and the handler reports it (result names the exception)
CreateFinish(r) ==
    /\ pc[r] = "c_code"
    /\ \E post \in Posts :
         LET e    == req[r].e
             qs   == IF is_valid(post) THEN formset_items(post.forms)
                                         ELSE fallback_items(post.forms)
             n    == Len(qs)
             info == [NoReq EXCEPT !.kind = "create", !.e = e,
                                   !.submitted = NumSubmitted(post.forms),
                                    !.valid     = NumValid(post.forms),
                                    !.created   = n]
             rollback(exc) ==
                 /\ req' = [req EXCEPT ![r] = [info EXCEPT !.result = exc]]
                 /\ UNCHANGED db
         IN  /\ IF unique_violation(req[r].cand, e)
                THEN rollback("IntegrityError")
                ELSE IF \E i \in DOMAIN qs : ~StoredItem_clean(qs[i])
                THEN rollback("ValidationError")
                ELSE IF no_items_created(n)
                THEN IF prevent_active_entry_deletion(req[r].inst)
                     THEN rollback("ValidationError")
                     ELSE /\ req' = [req EXCEPT ![r] = [info EXCEPT !.result = "invalid"]]
                          /\ UNCHANGED db
                ELSE IF ~redirect_display
                THEN rollback("NoReverseMatch")
                ELSE /\ entry' = [entry EXCEPT ![e] = req[r].inst]
                     /\ items' = [items EXCEPT ![e] = qs]
                     /\ qr'    = [qr EXCEPT ![e] = [present |-> TRUE,
                                                    code |-> req[r].cand,
                                                    is_active |-> TRUE]]
                     /\ scans' = scans
                     /\ req'   = [req EXCEPT ![r] = [info EXCEPT !.result = "ok"]]
    /\ pc' = [pc EXCEPT ![r] = "done"]
    /\ UNCHANGED <<served, namespaces, now, code, formatted_code>>

\* ------------------------------- generate_qr_code (forced regeneration)

\* faulty variant of generate_qr_image_writes: a new code on every call
generate_qr_image_writes_Always(row, regenerate) == TRUE

\* generate_qr_image, "if self.code and not regenerate: return self.code":
\* TRUE when the call goes on to draw a code and save the row
generate_qr_image_writes(row, regenerate) ==
    ~(row.code # EmptyCode /\ ~regenerate)

\* generate_qr_code: get_or_create returns the code row of the entry, and
\* generate_qr_image(regenerate=True) is called on it
GenerateQrCodeLoad(r, e) ==
    /\ Starts(r)
    /\ Exists(e)
    /\ qr[e].present
    /\ req' = [req EXCEPT ![r] =
                 [NoReq EXCEPT !.kind = "generate_qr_code", !.e = e, !.qrc = qr[e]]]
    /\ pc' = [pc EXCEPT ![r] =
                 IF generate_qr_image_writes(qr[e], TRUE) THEN "g_loaded" ELSE "done"]
    /\ UNCHANGED <<namespaces, entry, items, qr, scans, now,
                   code, formatted_code>>

\* issue of a code: generate_qr_image(regenerate=False) on the code row of
\* the entry, as display_qr_code and the post_save receiver call it; on a
\* row that has a code it returns that code (kept in cand)
IssueCode(r, e) ==
    /\ Starts(r)
    /\ Exists(e)
    /\ qr[e].present
    /\ IF generate_qr_image_writes(qr[e], FALSE)
       THEN /\ req' = [req EXCEPT ![r] =
                         [NoReq EXCEPT !.kind = "issue_code", !.e = e, !.qrc = qr[e]]]
            /\ pc'  = [pc EXCEPT ![r] = "g_loaded"]
       ELSE /\ req' = [req EXCEPT ![r] =
                         [NoReq EXCEPT !.kind = "issue_code", !.e = e,
                                       !.cand = qr[e].code, !.result = "ok"]]
            /\ pc'  = [pc EXCEPT ![r] = "done"]
    /\ UNCHANGED <<namespaces, entry, items, qr, scans, now,
                   code, formatted_code>>

\* generate_unique_code, one pass of "while True": random.choices draws c,
\* and the loop returns it when no code row holds it and goes round again
\* when one does; no statement of the loop raises or counts the passes
GenerateQrCodeDraw(r, c) ==
    /\ pc[r] = "g_loaded"
    /\ req' = [req EXCEPT ![r].cand = c]
    /\ pc'  = [pc EXCEPT ![r] = IF code_exists(c) THEN "g_loaded" ELSE "g_code"]
    /\ UNCHANGED <<served, namespaces, entry, items, qr, scans, now,
                   code, formatted_code>>

\* generate_qr_image: self.generate_unique_code()
GenerateQrCodePick(r) == \E c \in CodeSpace : GenerateQrCodeDraw(r, c)

\* generate_qr_image: self.save() writes every field of the in-memory row
GenerateQrCodeSave(r) ==
    /\ pc[r] = "g_code"
    /\ LET e == req[r].e
       IN  IF ~qr[e].present \/ unique_violation(req[r].cand, e)
           THEN /\ Finish(r, "error")                        \* IntegrityError
                /\ UNCHANGED qr
           ELSE /\ qr' = [qr EXCEPT ![e] = [req[r].qrc EXCEPT !.code = req[r].cand]]
                /\ Finish(r, "ok")
    /\ UNCHANGED <<served, namespaces, entry, items, scans, now,
                   code, formatted_code>>

\* ------------------------------------------------------------ the claims

\* is_staff_member, the test of user_passes_test
is_staff_member(user) == user.is_authenticated /\ user.is_staff

Load(r, kind, e, user) ==
    /\ req' = [req EXCEPT ![r] = [NoReq EXCEPT !.kind = kind, !.e = e,
                                               !.inst = entry[e],
                                               !.user = user]]
    /\ pc'  = [pc EXCEPT ![r] = "k_loaded"]

Reject(r, kind, e, res) ==
    /\ req' = [req EXCEPT ![r] = [NoReq EXCEPT !.kind = kind, !.e = e,
                                               !.result = res]]
    /\ pc'  = [pc EXCEPT ![r] = "done"]

\* process_claim: user_passes_test(is_staff_member), which sends any other
\* principal to the login page, get_object_or_404 and the status check
ProcessClaimLoad(r, e) ==
    /\ Starts(r)
    /\ Exists(e)
    /\ \E user \in Users :
          IF ~is_staff_member(user)
          THEN Reject(r, "process_claim", e, "login_redirect")
          ELSE IF entry[e].status # "active"
          THEN Reject(r, "process_claim", e, "cannot_be_claimed")
          ELSE Load(r, "process_claim", e, user)
    /\ UNCHANGED <<namespaces, entry, items, qr, scans, now,
                   code, formatted_code>>

\* claim_storage_entry (AJAX, login_required): the principal is the owner
\* of the entry, objects.get(..., student=profile, status='active')
ClaimStorageEntryLoad(r, e) ==
    /\ Starts(r)
    /\ Exists(e)
    /\ \E user \in Users :
          IF entry[e].status # "active"
          THEN Reject(r, "claim_storage_entry", e, "not_found")
          ELSE Load(r, "claim_storage_entry", e, user)
    /\ UNCHANGED <<namespaces, entry, items, qr, scans, now,
                   code, formatted_code>>

\* a caller of the model API holds an instance and calls claim_items on it
ClaimItemsLoad(r, e) ==
    /\ Starts(r)
    /\ Exists(e)
    /\ Load(r, "claim_items", e, NoUser)
    /\ UNCHANGED <<namespaces, entry, items, qr, scans, now,
                   code, formatted_code>>

\* claim_items up to self.save(): the guard, the assignments, full_clean,
\* the pre_save receiver, the UPDATE, and the post_save receiver, which reads
\* instance.qr_code and leaves it cached on the instance
ClaimItemsSave(r) ==
    /\ pc[r] = "k_loaded"
    /\ LET e   == req[r].e
           old == entry[e]
       IN  IF ~claim_items_allowed(req[r].inst) \/ ~Exists(e)
           THEN /\ Finish(r, "error")          \* ValidationError, DoesNotExist
                /\ UNCHANGED <<entry, now>>
           ELSE /\ now \in Times
                /\ Len(req[r].inst.staff_notes) < MaxNotes
                /\ \E claimed_by \in {TRUE} :
                     LET mem == claim_items(req[r].inst, now, claimed_by)
                         row == saved_row(mem, old, now)
                     IN  IF ~clean(mem, old) \/ ~claimed_at_required_when_claimed(row)
                         THEN /\ Finish(r, "error")
                              /\ UNCHANGED <<entry, now>>
                         ELSE /\ entry' = [entry EXCEPT ![e] = row]
                              /\ now'   = now + 1
                              /\ req'   = [req EXCEPT ![r].inst = row,
                                                      ![r].qrc  = qr[e]]
                              /\ pc'    = [pc EXCEPT ![r] = "k_saved"]
    /\ UNCHANGED <<served, namespaces, items, qr, scans, code, formatted_code>>

\* claim_items after self.save(): the cached code row is written back with
\* is_active = False; the bare except swallows a failure of that write
ClaimItemsDeactivate(r) ==
    /\ pc[r] = "k_saved"
    /\ LET e == req[r].e
       IN  /\ IF /\ req[r].qrc.present
                 /\ qr[e].present
                 /\ ~unique_violation(req[r].qrc.code, e)
              THEN qr' = [qr EXCEPT ![e] = [req[r].qrc EXCEPT !.is_active = FALSE]]
              ELSE qr' = qr
           /\ IF req[r].kind = "process_claim"
              THEN /\ pc'  = [pc EXCEPT ![r] = "k_claimed"]
                   /\ req' = req
              ELSE Finish(r, "ok")
    /\ UNCHANGED <<served, namespaces, entry, items, scans, now,
                   code, formatted_code>>

\* process_claim, "if notes": the line is appended and the entry saved again
ProcessClaimNotes(r) ==
    /\ pc[r] = "k_claimed"
    /\ Len(req[r].inst.staff_notes) < MaxNotes
    /\ LET e   == req[r].e
           old == entry[e]
           mem == [req[r].inst EXCEPT !.staff_notes = Append(@, "Claim notes")]
           row == saved_row(mem, old, now)
       IN  /\ ((Exists(e) /\ row.claimed_at = now) => now \in Times)
           /\ IF ~Exists(e) \/ ~clean(mem, old)
              THEN /\ Finish(r, "error")
                   /\ UNCHANGED <<entry, now>>
              ELSE /\ entry' = [entry EXCEPT ![e] = row]
                   /\ now'   = IF row.claimed_at = now THEN now + 1 ELSE now
                   /\ req'   = [req EXCEPT ![r].inst = row]
                   /\ pc'    = [pc EXCEPT ![r] = "k_noted"]
    /\ UNCHANGED <<served, namespaces, items, qr, scans, code, formatted_code>>

\* process_claim: QRScan.objects.create(action_taken='item_claimed_manual')
ProcessClaimScan(r) ==
    /\ pc[r] \in {"k_claimed", "k_noted"}
    /\ IF req[r].qrc.present /\ qr[req[r].e].present
       THEN /\ scans' = Append(scans, [qr_code |-> req[r].e,
                                       action_taken |-> "item_claimed_manual"])
            /\ Finish(r, "ok")
       ELSE /\ scans' = scans              \* DoesNotExist, IntegrityError
            /\ Finish(r, "error")
    /\ UNCHANGED <<served, namespaces, entry, items, qr, now,
                   code, formatted_code>>

\* process_claim, "except Exception": a statement of the try block after
\* claim_items raises (a database error); the handler answers with the
\* error and undoes nothing
ProcessClaimError(r) ==
    /\ pc[r] \in {"k_claimed", "k_noted"}
    /\ Finish(r, "error")
    /\ UNCHANGED <<served, namespaces, entry, items, qr, scans, now,
                   code, formatted_code>>

\* ------------------------------------------------------- cancel_storage

\* a caller of the model API holds an instance
CancelStorageLoad(r, e) ==
    /\ Starts(r)
    /\ Exists(e)
    /\ req' = [req EXCEPT ![r] = [NoReq EXCEPT !.kind = "cancel_storage",
                                               !.e = e, !.inst = entry[e]]]
    /\ pc'  = [pc EXCEPT ![r] = "x_loaded"]
    /\ UNCHANGED <<namespaces, entry, items, qr, scans, now,
                   code, formatted_code>>

\* cancel_storage up to full_clean(): the guard, the assignments and
\* StorageEntry.clean, which reads the persisted row
CancelStorageClean(r) ==
    /\ pc[r] = "x_loaded"
    /\ \E reason \in BOOLEAN :
         LET e   == req[r].e
             mem == cancel_storage(req[r].inst, reason)
         IN  /\ (reason => Len(req[r].inst.staff_notes) < MaxNotes)
             /\ IF \/ ~cancel_storage_allowed(req[r].inst)
                   \/ ~Exists(e)
                   \/ ~clean(mem, entry[e])
                THEN Finish(r, "error")         \* ValidationError, DoesNotExist
                ELSE /\ req' = [req EXCEPT ![r].inst = mem]
                     /\ pc'  = [pc EXCEPT ![r] = "x_cleaned"]
    /\ UNCHANGED <<served, namespaces, entry, items, qr, scans, now,
                   code, formatted_code>>

\* the rest of self.save(): the pre_save receiver and the UPDATE
CancelStorageWrite(r) ==
    /\ pc[r] = "x_cleaned"
    /\ LET e   == req[r].e
           row == saved_row(req[r].inst, entry[e], now)
       IN  /\ ((Exists(e) /\ row.claimed_at = now) => now \in Times)
           /\ IF ~Exists(e) \/ ~claimed_at_required_when_claimed(row)
              THEN /\ Finish(r, "error")
                   /\ UNCHANGED <<entry, now>>
              ELSE /\ entry' = [entry EXCEPT ![e] = row]
                   /\ now'   = IF row.claimed_at = now THEN now + 1 ELSE now
                   /\ Finish(r, "ok")
    /\ UNCHANGED <<served, namespaces, items, qr, scans, code, formatted_code>>

\* ------------------------------------------------------ StoredItem.save

\* quantities a caller of the model API can assign to an item
Quantities == {int(s) : s \in {q \in RawQty : is_int(q)}}

\* StoredItem.save of an existing item: full_clean, the UPDATE of the item,
\* and self.storage_entry, which loads the parent entry
StoredItemSave(r, e, k, q) ==
    /\ Starts(r)
    /\ Exists(e)
    /\ k \in DOMAIN items[e]
    /\ IF ~StoredItem_clean(q)
       THEN /\ Reject(r, "item_save", e, "error")            \* ValidationError
            /\ UNCHANGED items
       ELSE /\ items' = [items EXCEPT ![e][k] = q]
            /\ req'   = [req EXCEPT ![r] = [NoReq EXCEPT !.kind = "item_save",
                                                         !.e = e, !.inst = entry[e]]]
            /\ pc'    = [pc EXCEPT ![r] = "i_saved"]
    /\ UNCHANGED <<namespaces, entry, qr, scans, now, code, formatted_code>>

\* self.storage_entry.save(): full_clean with StorageEntry.clean
StoredItemParentClean(r) ==
    /\ pc[r] = "i_saved"
    /\ IF ~Exists(req[r].e) \/ ~clean(req[r].inst, entry[req[r].e])
       THEN Finish(r, "error")                  \* ValidationError, DoesNotExist
       ELSE /\ pc'  = [pc EXCEPT ![r] = "i_cleaned"]
            /\ req' = req
    /\ UNCHANGED <<served, namespaces, entry, items, qr, scans, now,
                   code, formatted_code>>

\* self.storage_entry.save(): the pre_save receiver and the UPDATE
StoredItemParentWrite(r) ==
    /\ pc[r] = "i_cleaned"
    /\ LET e   == req[r].e
           row == saved_row(req[r].inst, entry[e], now)
       IN  /\ ((Exists(e) /\ row.claimed_at = now) => now \in Times)
           /\ IF ~Exists(e)
              THEN /\ Finish(r, "error")                     \* DoesNotExist
                   /\ UNCHANGED <<entry, now>>
              ELSE /\ entry' = [entry EXCEPT ![e] = row]
                   /\ now'   = IF row.claimed_at = now THEN now + 1 ELSE now
                   /\ Finish(r, "ok")
    /\ UNCHANGED <<served, namespaces, items, qr, scans, code, formatted_code>>

\* ----------------------------------------------------------- verify_code

\* QRCodeImage.objects.get(code=code): the entries whose code row holds c
code_lookup(c) == {e \in EntryIds : qr[e].present /\ qr[e].code = c}

\* faulty variant of verify_code_outcome: one answer for both failures
verify_code_outcome_SameError(c) ==
    IF c = EmptyCode THEN "no_code"
    ELSE IF code_lookup(c) = {} THEN "invalid"
    ELSE IF ~qr[CHOOSE e \in code_lookup(c) : TRUE].is_active THEN "invalid"
    ELSE "verified"

\* the outcome verify_code answers with for the submitted code string
verify_code_outcome(c) ==
    IF c = EmptyCode THEN "no_code"
    ELSE IF code_lookup(c) = {} THEN "invalid"
    ELSE IF ~qr[CHOOSE e \in code_lookup(c) : TRUE].is_active THEN "deactivated"
    ELSE "verified"

\* faulty variant of verify_code_scans: the verification is not recorded
verify_code_scans_Never(c) == scans

\* QRScan.objects.create(action_taken='staff_verification_manual'), reached
\* only past the two failure returns
verify_code_scans(c) ==
    IF verify_code_outcome(c) = "verified"
    THEN Append(scans, [qr_code |-> CHOOSE e \in code_lookup(c) : TRUE,
                        action_taken |-> "staff_verification_manual"])
    ELSE scans

\* the request object of a verify_code call that has answered
verify_code_response(c) ==
    [NoReq EXCEPT !.kind = "verify_code",
                  !.e = IF code_lookup(c) = {} THEN 0
                        ELSE CHOOSE e \in code_lookup(c) : TRUE,
                  !.cand = c,
                  !.result = verify_code_outcome(c)]

\* faulty variant of VerifyCode: a verification also deactivates the code
VerifyCode_Deactivating(r, c) ==
    /\ Starts(r)
    /\ scans' = verify_code_scans(c)
    /\ qr' = [e \in EntryIds |->
                IF e \in code_lookup(c) THEN [qr[e] EXCEPT !.is_active = FALSE]
                ELSE qr[e]]
    /\ req' = [req EXCEPT ![r] = verify_code_response(c)]
    /\ pc'  = [pc EXCEPT ![r] = "done"]
    /\ UNCHANGED <<namespaces, entry, items, now, code, formatted_code>>

\* verify_code (staff): the lookup of the code string, the two failure
\* returns, and the insert of the scan.  The lookup and the insert are one
\* step: no statement of a view removes a code row between them.
VerifyCode(r, c) ==
    /\ Starts(r)
    /\ scans' = verify_code_scans(c)
    /\ req' = [req EXCEPT ![r] = verify_code_response(c)]
    /\ pc'  = [pc EXCEPT ![r] = "done"]
    /\ UNCHANGED <<namespaces, entry, items, qr, now, code, formatted_code>>

\* ------------------------------------------------------ StorageEntry.delete

\* the scans that stay when the code row of entry e is deleted (CASCADE)
RECURSIVE scans_without(_, _)
scans_without(sc, e) ==
    IF sc = <<>> THEN <<>>
    ELSE IF Head(sc).qr_code = e
         THEN scans_without(Tail(sc), e)
         ELSE <<Head(sc)>> \o scans_without(Tail(sc), e)

\* a caller of the model API loads an entry and deletes it: the pre_delete
\* receiver runs first; the delete cascades to the items, the code row and
\* the scans of the code row, in one transaction
DeleteEntry(r, e) ==
    /\ Starts(r)
    /\ Exists(e)
    /\ IF prevent_active_entry_deletion(entry[e])
       THEN /\ Reject(r, "delete", e, "error")               \* ValidationError
            /\ UNCHANGED db
       ELSE /\ entry' = [entry EXCEPT ![e] = Deleted]
            /\ items' = [items EXCEPT ![e] = <<>>]
            /\ qr'    = [qr EXCEPT ![e] = NoQr]
            /\ scans' = scans_without(scans, e)
            /\ Reject(r, "delete", e, "ok")
    /\ UNCHANGED <<namespaces, now, code, formatted_code>>

\* ------------------------------- QRCodeImage.generate_unique_code, text
\* The requests above see a code as a value of CodeSpace. Here the string is
\* built character by character, on a code table without rows, so that the
\* lookup of the loop finds nothing and the first draw is returned.

length == 8

ascii_uppercase ==
    <<"A", "B", "C", "D", "E", "F", "G", "H", "I", "J", "K", "L", "M",
      "N", "O", "P", "Q", "R", "S", "T", "U", "V", "W", "X", "Y", "Z">>

digits == <<"0", "1", "2", "3", "4", "5", "6", "7", "8", "9">>

\* faulty variant of replace: the character is kept
replace_Keep(s, ch) == s

\* str.replace(ch, ''): every occurrence of the character is removed
replace(s, ch) == SelectSeq(s, LAMBDA x : x # ch)

\* string.ascii_uppercase + string.digits.replace('0', '').replace('O', '')
chars == ascii_uppercase \o replace(replace(digits, "0"), "O")

\* random.choices(chars, k=length): the draws made of one character, but
\* for a run of at most MaxRun positions that hold another one
choices ==
    LET alphabet == {chars[i] : i \in 1..Len(chars)}
    IN  {[i \in 1..length |-> IF i \in p..(p + n - 1) THEN d ELSE c] :
            c \in alphabet, d \in alphabet, p \in 1..length, n \in 0..MaxRun}

\* f"{code[:4]}-{code[4:]}"
format(cd) == SubSeq(cd, 1, 4) \o <<"-">> \o SubSeq(cd, 5, Len(cd))

GenInit ==
    /\ namespaces = RootNamespaces
    /\ entry = [e \in EntryIds |-> NoEntry]
    /\ items = [e \in EntryIds |-> <<>>]
    /\ qr    = [e \in EntryIds |-> NoQr]
    /\ scans = <<>>
    /\ now   = 1
    /\ served = 0
    /\ pc    = [r \in Reqs |-> "idle"]
    /\ req   = [r \in Reqs |-> NoReq]
    /\ code \in choices
    /\ formatted_code = <<>>

\* the formatted string is held by no row and is returned
GenerateUniqueCodeReturn ==
    /\ formatted_code = <<>>
    /\ \A e \in EntryIds : ~qr[e].present
    /\ formatted_code' = format(code)
    /\ UNCHANGED <<namespaces, entry, items, qr, scans, now, served, pc, req, code>>

GenNext == GenerateUniqueCodeReturn

GenSpec == GenInit /\ [][GenNext]_vars

\* ------------------------------------------ StorageEntry.get_total_items

\* faulty variant of sum: the number of items
sum_Count(qs) == Len(qs)

\* the builtin sum over the quantities, from 0 and from the left
RECURSIVE sum(_)
sum(qs) == IF qs = <<>> THEN 0 ELSE qs[1] + sum(Tail(qs))

\* "x or 0": a falsy x gives 0
or_0(x) == IF x = 0 THEN 0 ELSE x

\* sum(item.quantity for item in self.items.all()) or 0
get_total_items(e) == or_0(sum(items[e]))

\* The item lists of the requests above hold the quantity 1 only.  Here one
\* entry is persisted, in any status, with up to MaxForms items of any
\* quantity up to MaxQuantity, or with none (its items deleted one by one).
TotalInit ==
    /\ namespaces = RootNamespaces \cup {QrCodesNamespace}
    /\ \E e0 \in EntryIds, st \in STATUS_CHOICES :
          /\ entry = [e \in EntryIds |->
                        IF e = e0
                        THEN [status      |-> st,
                              claimed_at  |-> IF st = "claimed" THEN 1 ELSE None,
                              staff_notes |-> <<>>]
                        ELSE NoEntry]
          /\ \E qs \in UNION {[1..k -> 1..MaxQuantity] : k \in 0..MaxForms} :
                items = [e \in EntryIds |-> IF e = e0 THEN qs ELSE <<>>]
          /\ qr = [e \in EntryIds |->
                     IF e = e0
                     THEN [present |-> TRUE, code |-> 1, is_active |-> st # "claimed"]
                     ELSE NoQr]
    /\ scans = <<>>
    /\ now   = 2
    /\ served = 0
    /\ pc    = [r \in Reqs |-> "idle"]
    /\ req   = [r \in Reqs |-> NoReq]
    /\ code  = <<>>
    /\ formatted_code = <<>>

\* a caller (generate_qr_data, the claim views, the templates) reads the
\* total of an entry
GetTotalItems(r, e) ==
    /\ Starts(r)
    /\ Exists(e)
    /\ req' = [req EXCEPT ![r] = [NoReq EXCEPT !.kind = "get_total_items",
                                               !.e = e,
                                               !.total_items = get_total_items(e),
                                               !.result = "ok"]]
    /\ pc'  = [pc EXCEPT ![r] = "done"]
    /\ UNCHANGED <<namespaces, entry, items, qr, scans, now, code, formatted_code>>

TotalNext == \E r \in Reqs, e \in EntryIds : GetTotalItems(r, e)

TotalSpec == TotalInit /\ [][TotalNext]_vars

\* ------------------------------------------------------------------ Next
Next ==
    \E r \in Reqs :
        \/ CreateBegin(r)
        \/ CreateFinish(r)
        \/ \E e \in EntryIds : GenerateQrCodeLoad(r, e)
        \/ \E e \in EntryIds : IssueCode(r, e)
        \/ GenerateQrCodePick(r)
        \/ GenerateQrCodeSave(r)
        \/ \E e \in EntryIds : ProcessClaimLoad(r, e)
        \/ \E e \in EntryIds : ClaimStorageEntryLoad(r, e)
        \/ \E e \in EntryIds : ClaimItemsLoad(r, e)
        \/ ClaimItemsSave(r)
        \/ ClaimItemsDeactivate(r)
        \/ ProcessClaimNotes(r)
        \/ ProcessClaimScan(r)
        \/ ProcessClaimError(r)
        \/ \E e \in EntryIds : CancelStorageLoad(r, e)
        \/ CancelStorageClean(r)
        \/ CancelStorageWrite(r)
        \/ \E e \in EntryIds, k \in 1..MaxForms, q \in Quantities :
               StoredItemSave(r, e, k, q)
        \/ StoredItemParentClean(r)
        \/ StoredItemParentWrite(r)
        \/ \E e \in EntryIds : DeleteEntry(r, e)
        \/ \E c \in CodeSpace \cup {EmptyCode} : VerifyCode(r, c)

Spec == Init /\ [][Next]_vars

\* The handler of a regeneration keeps running its loop, and random.choices
\* is fair: a value that is free again and again is drawn at some pass.
FairSpec ==
    /\ Spec
    /\ \A r \in Reqs :
          /\ WF_vars(GenerateQrCodePick(r))
          /\ \A c \in CodeSpace :
                SF_vars(GenerateQrCodeDraw(r, c) /\ ~code_exists(c))

\* ----------------------------------------------------------- the claims

\* C1: in every persisted state reached by creations, claims, cancellations
\* and item saves, claimed_at of an entry is set if and only if its status
\* is 'claimed'
C1_ClaimedAtIffClaimed ==
    \A e \in EntryIds :
        Exists(e) => ((entry[e].claimed_at # None) <=> (entry[e].status = "claimed"))

\* an entry is claimed and stamped, and a save of one of its items has
\* written the entry too
C1_Witness ==
    \E e \in EntryIds, r \in Reqs :
        /\ entry[e].status = "claimed"
        /\ entry[e].claimed_at # None
        /\ pc[r] = "done"
        /\ req[r].kind = "item_save"
        /\ req[r].e = e
        /\ req[r].result = "ok"

\* C2: in every persisted state, also between and after the steps of a
\* claim, an entry with status 'claimed' has an inactive code
C2_ClaimedImpliesCodeInactive ==
    \A e \in EntryIds :
        entry[e].status = "claimed" => (qr[e].present /\ ~qr[e].is_active)

\* C3: in every persisted state an entry has status 'claimed' if and only
\* if a claim event ('item_claimed_manual') exists for its code: the status
\* write and the event insert persist together or not at all
C3_ClaimedIffClaimEvent ==
    \A e \in EntryIds :
        Exists(e) =>
            ((entry[e].status = "claimed") <=>
             (\E i \in DOMAIN scans :
                  /\ scans[i].qr_code = e
                  /\ scans[i].action_taken = "item_claimed_manual"))

\* C4: once the persisted status of an entry is 'claimed', no step of any
\* operation changes it
C4_ClaimedIsTerminal ==
    [][\A e \in EntryIds :
          entry[e].status = "claimed" => entry'[e].status = "claimed"]_vars

\* C5: once the persisted status of an entry is 'cancelled', no step of any
\* operation changes it, the save of a claim that loaded the entry while it
\* was active included
C5_CancelledIsTerminal ==
    [][\A e \in EntryIds :
          entry[e].status = "cancelled" => entry'[e].status = "cancelled"]_vars

\* C6: claim_items succeeds only on an entry whose status is 'active';
\* called on an entry whose status is 'claimed', 'cancelled' or 'expired' it
\* fails with an error and leaves status, claimed_at, staff_notes and the
\* active flag of the code unchanged.  The status is the one of the entry
\* the call is made on, as its caller loaded it; the claim views call it
\* only on entries they loaded as 'active'.
C6_ClaimOnlyFromActive ==
    [][\A r \in Reqs :
          (pc[r] = "k_loaded" /\ pc'[r] # "k_loaded") =>
              /\ (req[r].kind # "claim_items" => req[r].inst.status = "active")
              /\ (pc'[r] = "k_saved" => req[r].inst.status = "active")
              /\ (req[r].inst.status # "active" =>
                     /\ pc'[r] = "done"
                     /\ req'[r].result = "error"
                     /\ entry' = entry
                     /\ qr' = qr)]_vars

\* claim_items was called on an entry that is claimed or cancelled and
\* answered with the error
C6_Witness ==
    \E r \in Reqs :
        /\ pc[r] = "done"
        /\ req[r].kind = "claim_items"
        /\ req[r].result = "error"
        /\ entry[req[r].e].status \in {"claimed", "cancelled"}

\* C7: in every state, under every interleaving of creations and
\* regenerations, no two code rows hold the same code string
C7_CodesDistinct ==
    \A e1, e2 \in EntryIds :
        (e1 # e2 /\ qr[e1].present /\ qr[e2].present) => qr[e1].code # qr[e2].code

\* two entries hold codes and a regeneration ran into the code another row
\* had taken meanwhile
C7_Witness ==
    /\ \A e \in EntryIds : qr[e].present
    /\ \E r \in Reqs :
          /\ pc[r] = "done"
          /\ req[r].kind = "generate_qr_code"
          /\ req[r].result = "error"

\* C8: a creation whose candidate code conflicts with a concurrently issued
\* code retries with a fresh candidate: no creation fails because of the
\* conflict
C8_NoCreationFailsOnConflict ==
    \A r \in Reqs :
        ~(pc[r] = "done" /\ req[r].kind = "create" /\ req[r].result = "IntegrityError")

\* C9: a creation that yields zero items fails and persists nothing, and
\* every persisted entry has at least one item
C9_ZeroItemsNothingPersisted ==
    [][/\ \A r \in Reqs :
             (pc[r] = "c_code" /\ pc'[r] = "done" /\ req'[r].created = 0) =>
                 (req'[r].result # "ok" /\ db' = db)
       /\ \A e \in EntryIds :
             Exists(e)' => Len(items'[e]) >= 1]_vars

\* a creation whose submitted forms all yielded no item has failed, next to
\* a persisted entry with its items
C9_Witness ==
    /\ \E r \in Reqs :
          /\ pc[r] = "done"
          /\ req[r].kind = "create"
          /\ req[r].submitted >= 1
          /\ req[r].created = 0
          /\ req[r].result = "ValidationError"
    /\ \E e \in EntryIds : Exists(e) /\ Len(items[e]) >= 1

\* C10: a creation with a non-empty list of valid items succeeds and leaves
\* an active entry with claimed_at unset, at least one item, and one code
\* that is active and non-empty
C10_ValidCreateSucceeds ==
    [][\A r \in Reqs :
          (/\ pc[r] = "c_code"
           /\ pc'[r] = "done"
           /\ req'[r].submitted >= 1
           /\ req'[r].valid = req'[r].submitted) =>
              LET e == req'[r].e
              IN  /\ req'[r].result = "ok"
                  /\ entry'[e].status = "active"
                  /\ entry'[e].claimed_at = None
                  /\ Len(items'[e]) >= 1
                  /\ qr'[e].present
                  /\ qr'[e].is_active
                  /\ qr'[e].code # EmptyCode]_vars

C12_CancelOnlyFromActive ==
    [][\A r \in Reqs :
          (pc[r] = "x_loaded" /\ pc'[r] # "x_loaded") =>
              /\ (req[r].inst.status = "active" /\ entry[req[r].e].status = "active") =>
                     (pc'[r] = "x_cleaned" /\ req'[r].inst.status = "cancelled")
              /\ req[r].inst.status # "active" =>
                     (pc'[r] = "done" /\ req'[r].result = "error" /\ entry' = entry)]_vars

\* C13: deleting an entry whose status is 'active' fails with an error and
\* leaves the entry, its items and its code persisted; deleting an entry
\* whose status is 'claimed', 'cancelled' or 'expired' succeeds
C13_DeleteOnlyNonActive ==
    [][(served' # served /\ req'[Starter].kind = "delete") =>
          LET e == req'[Starter].e
          IN  IF entry[e].status = "active"
              THEN /\ req'[Starter].result = "error"
                   /\ db' = db
              ELSE /\ req'[Starter].result = "ok"
                   /\ entry'[e] = Deleted
                   /\ items'[e] = <<>>
                   /\ ~qr'[e].present]_vars

\* the deletion of an active entry was refused and the entry, its items and
\* its code are still there
C13_Witness ==
    \E r \in Reqs :
        /\ pc[r] = "done"
        /\ req[r].kind = "delete"
        /\ req[r].result = "error"
        /\ entry[req[r].e].status = "active"
        /\ Len(items[req[r].e]) >= 1
        /\ qr[req[r].e].present

\* C14: verification answers 'invalid' exactly for a code string that
\* matches no code row and 'deactivated' exactly for one that matches an
\* inactive code row, and neither answer writes a verification event
C14_VerifyFailuresDistinct ==
    [][(served' # served /\ req'[Starter].kind = "verify_code") =>
          LET c   == req'[Starter].cand
              res == req'[Starter].result
          IN  /\ (res = "invalid") <=>
                     (c # EmptyCode /\ \A e \in EntryIds : ~(qr[e].present /\ qr[e].code = c))
              /\ (res = "deactivated") <=>
                     (\E e \in EntryIds :
                          qr[e].present /\ qr[e].code = c /\ ~qr[e].is_active)
              /\ (res \in {"invalid", "deactivated"} => scans' = scans)]_vars

\* a verification of the code of a claimed entry answered 'deactivated'
C14_Witness ==
    \E r \in Reqs :
        /\ pc[r] = "done"
        /\ req[r].kind = "verify_code"
        /\ req[r].result = "deactivated"
        /\ req[r].e \in EntryIds
        /\ entry[req[r].e].status = "claimed"
        /\ ~qr[req[r].e].is_active

\* C15: the verification of an existing, active code whose entry is not
\* 'active' (cancelled, expired) does not answer as a successful
\* verification
C15_VerifyRejectsInactiveEntry ==
    [][(served' # served /\ req'[Starter].kind = "verify_code") =>
          \A e \in EntryIds :
              (/\ qr[e].present
               /\ qr[e].code = req'[Starter].cand
               /\ qr[e].is_active
               /\ entry[e].status \in {"cancelled", "expired"}) =>
                  req'[Starter].result # "verified"]_vars

\* C16: every verification that finds an existing, active code appends
\* exactly one event 'staff_verification_manual' for that code, and the
\* verify events of a code change in no other step while the code exists
C16_OneEventPerVerification ==
    [][\A e \in EntryIds :
          LET verify_events(sc) ==
                  Cardinality({i \in DOMAIN sc :
                                  /\ sc[i].qr_code = e
                                  /\ sc[i].action_taken = "staff_verification_manual"})
              found == /\ served' # served
                       /\ req'[Starter].kind = "verify_code"
                       /\ qr[e].present
                       /\ qr[e].code = req'[Starter].cand
                       /\ qr[e].is_active
          IN  IF found
              THEN scans' = Append(scans, [qr_code |-> e,
                                           action_taken |-> "staff_verification_manual"])
              ELSE qr'[e].present => verify_events(scans') = verify_events(scans)]_vars

\* a verification succeeded and its event is the last row of the scans
C16_Witness ==
    \E r \in Reqs :
        /\ pc[r] = "done"
        /\ req[r].kind = "verify_code"
        /\ req[r].result = "verified"
        /\ scans # <<>>
        /\ scans[Len(scans)] = [qr_code |-> req[r].e,
                                 action_taken |-> "staff_verification_manual"]

\* C17: a verification, whatever its outcome, leaves every entry, every
\* item and every code row unchanged
C17_VerifyChangesOnlyScans ==
    [][(served' # served /\ req'[Starter].kind = "verify_code") =>
          (entry' = entry /\ items' = items /\ qr' = qr)]_vars

\* a verification succeeded and the code it found is still active, on an
\* entry that is still active
C17_Witness ==
    \E r \in Reqs :
        /\ pc[r] = "done"
        /\ req[r].kind = "verify_code"
        /\ req[r].result = "verified"
        /\ entry[req[r].e].status = "active"
        /\ qr[req[r].e].is_active

\* C18: issuing a code (generate_qr_image without regenerate) for a code row
\* that already has a code returns the existing code and changes no field of
\* the row, on every call
C18_IssueIsNoOp ==
    [][(served' # served /\ req'[Starter].kind = "issue_code") =>
          LET e == req'[Starter].e
          IN  qr[e].code # EmptyCode =>
                  /\ pc'[Starter] = "done"
                  /\ req'[Starter].result = "ok"
                  /\ req'[Starter].cand = qr[e].code
                  /\ qr' = qr]_vars

\* a code was issued for an entry that had one, and the row still holds it
C18_Witness ==
    \E r \in Reqs :
        /\ pc[r] = "done"
        /\ req[r].kind = "issue_code"
        /\ req[r].result = "ok"
        /\ req[r].cand # EmptyCode
        /\ qr[req[r].e].code = req[r].cand

\* C19: after a regeneration the code of the entry differs from the code the
\* entry had, the old string no longer resolves to the entry, the entry
\* still has its one code row, and the scans recorded before are all there
C19_RegenerateReplacesCode ==
    [][\A r \in Reqs :
          (/\ pc[r] = "g_code"
           /\ pc'[r] = "done"
           /\ req[r].kind = "generate_qr_code"
           /\ req'[r].result = "ok") =>
              LET e   == req[r].e
                  old == req[r].qrc.code
              IN  /\ qr'[e].present
                  /\ qr'[e].code # old
                  /\ \A e2 \in EntryIds :
                         (qr'[e2].present /\ qr'[e2].code = old) => e2 # e
                  /\ scans' = scans]_vars

\* C20: every string the generator returns is two groups of 4 characters
\* with one hyphen between them, each character an uppercase letter A-Z or
\* a digit 1-9
C20_GeneratedCodeFormat ==
    LET letters == {"A", "B", "C", "D", "E", "F", "G", "H", "I", "J", "K", "L", "M",
                    "N", "O", "P", "Q", "R", "S", "T", "U", "V", "W", "X", "Y", "Z"}
        nonzero == {"1", "2", "3", "4", "5", "6", "7", "8", "9"}
    IN  formatted_code # <<>> =>
            /\ Len(formatted_code) = 9
            /\ formatted_code[5] = "-"
            /\ \A i \in (1..4) \cup (6..9) :
                   formatted_code[i] \in letters \cup nonzero

\* a returned string with a letter in its first group and a digit at its end
C20_Witness ==
    /\ formatted_code # <<>>
    /\ formatted_code[1] = "O"
    /\ formatted_code[9] = "9"

\* C21: no string the generator returns contains the digit '0' or the
\* letter 'O'
C21_NoAmbiguousCharacters ==
    formatted_code # <<>> =>
        \A i \in DOMAIN formatted_code : formatted_code[i] \notin {"0", "O"}

\* C22: the verification events are append-only: every step of every
\* operation, the deletion of a non-active entry included, leaves the
\* events recorded so far in place and unchanged
C22_ScansAppendOnly ==
    [][/\ Len(scans') >= Len(scans)
       /\ SubSeq(scans', 1, Len(scans)) = scans]_vars

\* C23: a request moves the status of an entry from 'active' to 'claimed'
\* only when its principal has the staff flag
C23_ClaimIsStaffOnly ==
    [][\A r \in Reqs :
          (/\ req[r].kind \in {"process_claim", "claim_storage_entry"}
           /\ pc[r] = "k_loaded"
           /\ entry[req[r].e].status = "active"
           /\ entry'[req[r].e].status = "claimed") =>
              req[r].user.is_staff]_vars

\* C24: code generation always terminates: a call of the generator returns
\* an unused code or, when every code is in use, fails, so that no request
\* stays in the generator for ever
C24_GenerationTerminates ==
    \A r \in Reqs : (pc[r] = "g_loaded") ~> (pc[r] # "g_loaded")

\* C25: the total of an entry is the sum of the quantities of its items,
\* and 0 for an entry without items; the call always answers with a number
C25_TotalItemsIsSum ==
    \A r \in Reqs :
        (pc[r] = "done" /\ req[r].kind = "get_total_items") =>
            LET qs == items[req[r].e]
                S[i \in 0..Len(qs)] == IF i = 0 THEN 0 ELSE S[i - 1] + qs[i]
            IN  /\ req[r].result = "ok"
                /\ req[r].total_items \in Nat
                /\ req[r].total_items = S[Len(qs)]
                /\ (qs = <<>> => req[r].total_items = 0)

\* the total of an entry with the quantities 1 and 3 was read as 4
C25_Witness ==
    \E r \in Reqs :
        /\ pc[r] = "done"
        /\ req[r].kind = "get_total_items"
        /\ items[req[r].e] = <<1, 3>>
        /\ req[r].total_items = 4

\* C26: under every interleaving of claim requests, at most one claim event
\* ('item_claimed_manual') is ever written for the code of an entry
C26_AtMostOneClaimEvent ==
    \A e \in EntryIds :
        Cardinality({i \in DOMAIN scans :
                        /\ scans[i].qr_code = e
                        /\ scans[i].action_taken = "item_claimed_manual"}) <= 1

\* C27: every claim event of a code comes after a verify event
\* ('staff_verification_manual') of the same code
C27_ClaimAfterVerify ==
    \A i \in DOMAIN scans :
        scans[i].action_taken = "item_claimed_manual" =>
            \E j \in 1..(i - 1) :
                /\ scans[j].qr_code = scans[i].qr_code
                /\ scans[j].action_taken = "staff_verification_manual"

\* C28: no step of the save of a StoredItem changes the persisted status or
\* claimed_at of the parent entry, also when the parent held in memory was
\* loaded before a claim or a cancellation of the entry was persisted
C28_ItemSaveKeepsParent ==
    [][\A r \in Reqs :
          (/\ req[r].kind = "item_save"
           /\ pc[r] \in {"i_saved", "i_cleaned"}
           /\ pc'[r] # pc[r]) =>
              LET e == req[r].e
              IN  /\ entry'[e].status = entry[e].status
                  /\ entry'[e].claimed_at = entry[e].claimed_at]_vars

\* C29: once the persisted claimed_at of an entry is set, no step of any
\* later operation on the entry changes its value
C29_ClaimedAtWrittenOnce ==
    [][\A e \in EntryIds :
          (entry[e].claimed_at # None /\ Exists(e)') =>
              entry'[e].claimed_at = entry[e].claimed_at]_vars

\* C30: in every state an active code belongs to an entry whose status is
\* 'active': a cancelled or expired entry has no active code (the claimed
\* entry is the subject of C2)
C30_ActiveCodeOnActiveEntry ==
    \A e \in EntryIds :
        (qr[e].present /\ qr[e].is_active) =>
            entry[e].status \notin {"cancelled", "expired"}

====
